---- MODULE Spec2Model ----
(***************************************************************************)
(* Ingestion sidecar: MIME-keyed dispatch of uploaded or Drive-fetched     *)
(* bytes to per-format text extractors (backend/ingestion-service).        *)
(*                                                                         *)
(* Text is a sequence of atoms.  The atoms " ", "\n" and "\t" are the      *)
(* whitespace characters; every other atom is a run of non-whitespace      *)
(* characters that the code treats as a unit (a word, a literal marker).   *)
(* Exception messages are sequences of one-character atoms, so that        *)
(* slicing them counts characters.                                         *)
(*                                                                         *)
(* The bytes of a request are described by what the parsing library of     *)
(* the selected extractor reports for them (the "view"): whether the       *)
(* document opens, its pages, cells, elements or slides, and the steps at  *)
(* which the library raises.                                               *)
(***************************************************************************)
EXTENDS Integers, Sequences, FiniteSets, TLC

VARIABLES OCR_AVAILABLE, req, pc, resp, invoked, fetches, result

vars == <<OCR_AVAILABLE, req, pc, resp, invoked, fetches, result>>

(***************************************************************************)
(* Bounds of the model.                                                    *)
(***************************************************************************)
MaxPages == 2
MaxCells == 2
MaxElements == 2
MaxSlides == 2
MaxExtra == 2

(***************************************************************************)
(* Python string operations used by the code.                              *)
(***************************************************************************)
WS == {" ", "\n", "\t"}

IsBlank(s) == \A i \in 1..Len(s) : s[i] \in WS

RECURSIVE lstrip(_)
lstrip(s) == IF Len(s) > 0 /\ s[1] \in WS THEN lstrip(Tail(s)) ELSE s

RECURSIVE rstrip(_)
rstrip(s) ==
  IF Len(s) > 0 /\ s[Len(s)] \in WS THEN rstrip(SubSeq(s, 1, Len(s) - 1)) ELSE s

strip(s) == rstrip(lstrip(s))

RECURSIVE join(_, _)
join(sep, parts) ==
  IF Len(parts) = 0 THEN <<>>
  ELSE IF Len(parts) = 1 THEN parts[1]
  ELSE parts[1] \o sep \o join(sep, Tail(parts))

Slice(s, n) == SubSeq(s, 1, IF Len(s) < n THEN Len(s) ELSE n)

DictGet(d, k, default) ==
  IF \E p \in d : p[1] = k THEN (CHOOSE p \in d : p[1] = k)[2] ELSE default

(***************************************************************************)
(* What an extractor call produces: a returned dict, or an exception that  *)
(* leaves the extractor.  effects lists the library calls it made.         *)
(***************************************************************************)
Return(text, page_count, effects) ==
  [raised |-> FALSE, exc |-> <<>>, text |-> text, page_count |-> page_count,
   has_metadata |-> FALSE, metadata |-> {}, effects |-> effects]

ReturnMeta(text, page_count, metadata, effects) ==
  [raised |-> FALSE, exc |-> <<>>, text |-> text, page_count |-> page_count,
   has_metadata |-> TRUE, metadata |-> metadata, effects |-> effects]

Raise(exc, effects) ==
  [raised |-> TRUE, exc |-> exc, text |-> <<>>, page_count |-> 0,
   has_metadata |-> FALSE, metadata |-> {}, effects |-> effects]

NoResult == Return(<<>>, 0, <<>>)

(***************************************************************************)
(* Exception messages: lengths around the 300-character cut.               *)
(***************************************************************************)
DiagLimit == 300
DriveDiagLimit == 200

Msg(n) == [i \in 1..n |-> "e"]

ErrMsgs == {Msg(1), Msg(DiagLimit), Msg(DiagLimit + MaxExtra)}

(***************************************************************************)
(* extractors/pdf.py                                                       *)
(***************************************************************************)
PAGE_BREAK == <<"\n", "\n", "---PAGE BREAK---", "\n", "\n">>

PageTextOf(pages) == [i \in 1..Len(pages) |-> pages[i].text]

\* a loop that keeps every page, blank or not
pdf_all_page_texts(pages) == PageTextOf(pages)

\* lines 26-30: the loop over the pages
pdf_page_texts(pages) ==
  PageTextOf(SelectSeq(pages, LAMBDA p : ~IsBlank(p.text)))

pdf_extract(view, filename) ==
  IF ~view.opens
  THEN Return(<<"[PDF Error] Could not open ">> \o filename \o <<": ">> \o view.exc,
              0, <<"fitz.open">>)
  ELSE IF \E i \in 1..Len(view.pages) : view.pages[i].raises
  THEN LET i == CHOOSE k \in 1..Len(view.pages) :
                  /\ view.pages[k].raises
                  /\ \A j \in 1..(k - 1) : ~view.pages[j].raises
       IN Raise(view.pages[i].exc, <<"fitz.open", "get_text">>)
  ELSE LET page_texts == pdf_page_texts(view.pages)
       IN ReturnMeta(join(PAGE_BREAK, page_texts), Len(page_texts),
                     {<<"title", DictGet(view.meta, "title", <<>>)>>,
                      <<"author", DictGet(view.meta, "author", <<>>)>>,
                      <<"subject", DictGet(view.meta, "subject", <<>>)>>},
                     <<"fitz.open", "get_text">>)

(***************************************************************************)
(* extractors/image.py (" - " stands for the dash of the failure message)  *)
(***************************************************************************)
OCR_UNAVAILABLE_TEXT(filename) ==
  <<"[Image] ">> \o filename \o
  <<"\n", "OCR not available on this server (Tesseract not installed).", "\n",
    "Install tesseract-ocr to enable full text extraction from images.">>

\* lines 30-57: the try block
ocr_image(view, filename) ==
  IF view.decode_raises
  THEN Return(<<"[Image] ">> \o filename \o <<" - OCR failed: ">> \o view.exc, 0,
              <<"PIL.open">>)
  ELSE LET converts == IF view.mode \notin {"RGB", "L"} THEN <<"convert">> ELSE <<>>
           effects == <<"PIL.open">> \o converts \o <<"image_to_string">>
       IN IF view.ocr_raises
          THEN Return(<<"[Image] ">> \o filename \o <<" - OCR failed: ">> \o view.exc,
                      0, effects)
          ELSE LET text == strip(view.ocr_text)
               IN IF Len(text) = 0
                  THEN Return(<<"[Image] ">> \o filename \o
                              <<"\n", "No text detected by OCR.">>, 0, effects)
                  ELSE ReturnMeta(<<"[Image: ">> \o filename \o <<"]", "\n", "\n">>
                                  \o text, 0,
                                  {<<"width", view.width>>, <<"height", view.height>>},
                                  effects)

\* an extractor that does not consult the flag
image_extract_unguarded(view, filename, ocr_available) == ocr_image(view, filename)

image_extract(view, filename, ocr_available) ==
  IF ~ocr_available THEN Return(OCR_UNAVAILABLE_TEXT(filename), 0, <<>>)
  ELSE ocr_image(view, filename)

(***************************************************************************)
(* extractors/notebook.py                                                  *)
(*                                                                         *)
(* view.parse is "nbformat" when nbformat.reads succeeds, "json" when it   *)
(* fails and json.loads yields a mapping, "fail" when both fail.  A cell's *)
(* source is a str, a list of str fragments, or a value of another type    *)
(* (on which .strip() raises AttributeError).                              *)
(***************************************************************************)
\* str(AttributeError): "'int' object has no attribute 'strip'"
ATTRIBUTE_ERROR == [i \in 1..38 |-> "e"]

RECURSIVE concat(_)
concat(fragments) ==
  IF Len(fragments) = 0 THEN <<>> ELSE fragments[1] \o concat(Tail(fragments))

\* lines 27-30: source after joining the fragments and stripping
cell_source(cell) ==
  strip(IF cell.source.kind = "list" THEN concat(cell.source.value)
        ELSE cell.source.value)

\* a cell_part that emits code cells like markdown cells
cell_part_unfenced(cell_type, source) ==
  IF cell_type \in {"markdown", "code", "raw"} THEN << source >> ELSE <<>>

\* lines 34-39: what a non-blank cell appends to parts (FENCE: three backticks)
cell_part(cell_type, source) ==
  IF cell_type = "markdown" THEN << source >>
  ELSE IF cell_type = "code"
  THEN << <<"\n", "FENCE python", "\n">> \o source \o <<"\n", "FENCE", "\n">> >>
  ELSE IF cell_type = "raw" THEN << source >>
  ELSE <<>>

RECURSIVE notebook_parts(_)
notebook_parts(cells) ==
  IF Len(cells) = 0 THEN <<>>
  ELSE LET source == cell_source(cells[1])
       IN (IF Len(source) = 0 THEN <<>> ELSE cell_part(cells[1].cell_type, source))
          \o notebook_parts(Tail(cells))

notebook_extract(view, filename) ==
  IF view.parse = "fail"
  THEN Return(<<"[Notebook Error] Could not parse ">> \o filename \o <<": ">>
              \o view.exc, 0, <<"nbformat.reads", "json.loads">>)
  ELSE LET effects == IF view.parse = "nbformat" THEN <<"nbformat.reads">>
                      ELSE <<"nbformat.reads", "json.loads">>
       IN IF \E i \in 1..Len(view.cells) : view.cells[i].source.kind = "other"
          THEN Raise(ATTRIBUTE_ERROR, effects)
          ELSE Return(join(<<"\n", "\n">>,
                           << <<"# Jupyter Notebook: ">> \o filename \o <<"\n">> >>
                           \o notebook_parts(view.cells)),
                      0, effects)

(***************************************************************************)
(* extractors/html_extractor.py                                            *)
(*                                                                         *)
(* view.elements are the elements below the chosen root in document order, *)
(* each with its tag name and its text node.  view.bs4 is "ok",            *)
(* "import_error" (bs4 missing: the regex fallback runs over the markup)   *)
(* or "parser_error" (the BeautifulSoup constructor raises, as it does     *)
(* when the lxml parser is not installed).                                 *)
(***************************************************************************)
NON_CONTENT == {"script", "style", "nav", "footer", "header", "aside", "noscript"}
HEADINGS == {"h1", "h2", "h3", "h4", "h5", "h6"}

\* element.get_text(" ", strip=True) of an element holding one text node
get_text(element) == strip(element.string)

\* lines 29-45: the line an element appends, if any ("* " is the bullet marker)
html_line(element) ==
  LET text == get_text(element)
  IN IF Len(text) = 0 THEN <<>>
     ELSE IF element.name \in HEADINGS THEN << <<"\n", "## ">> \o text \o <<"\n">> >>
     ELSE IF element.name = "p" THEN << text >>
     ELSE IF element.name = "li" THEN << <<"* ">> \o text >>
     ELSE IF element.name \in {"td", "th"} THEN << text >>
     ELSE <<>>

RECURSIVE html_lines(_)
html_lines(elements) ==
  IF Len(elements) = 0 THEN <<>>
  ELSE html_line(elements[1]) \o html_lines(Tail(elements))

\* lines 47-55: "Deduplicate consecutive blank lines"
RECURSIVE dedupe(_, _)
dedupe(lines, prev_blank) ==
  IF Len(lines) = 0 THEN <<>>
  ELSE LET is_blank == IsBlank(lines[1])
       IN IF is_blank /\ prev_blank THEN dedupe(Tail(lines), prev_blank)
          ELSE <<lines[1]>> \o dedupe(Tail(lines), is_blank)

\* the markup of the elements, as the fallback reads it
RECURSIVE markup(_)
markup(elements) ==
  IF Len(elements) = 0 THEN <<>>
  ELSE <<"<" \o elements[1].name \o ">">> \o elements[1].string
       \o <<"</" \o elements[1].name \o ">">> \o markup(Tail(elements))

IsTag(atom) == atom \notin WS /\ \E n \in NON_CONTENT \cup HEADINGS \cup {"p", "li", "td", "th", "div"} :
                 atom = "<" \o n \o ">" \/ atom = "</" \o n \o ">"

\* re.sub(r"<[^>]+>", " ", ...)
sub_tags(s) == [i \in 1..Len(s) |-> IF IsTag(s[i]) THEN " " ELSE s[i]]

\* " ".join(text.split())
RECURSIVE collapse(_)
collapse(s) ==
  LET t == lstrip(s)
  IN IF Len(t) = 0 THEN <<>>
     ELSE LET rest == collapse(Tail(t))
          IN IF Len(Tail(t)) > 0 /\ Tail(t)[1] \in WS /\ Len(rest) > 0
             THEN <<t[1], " ">> \o rest
             ELSE <<t[1]>> \o rest

html_extract(view, filename) ==
  IF view.bs4 = "import_error"
  THEN Return(collapse(sub_tags(markup(view.elements))), 0, <<"re.sub">>)
  ELSE IF view.bs4 = "parser_error"
  THEN Raise(view.exc, <<"BeautifulSoup">>)
  ELSE LET kept == SelectSeq(view.elements, LAMBDA e : e.name \notin NON_CONTENT)
       IN Return(join(<<"\n">>, dedupe(html_lines(kept), FALSE)), 0,
                 <<"BeautifulSoup">>)

(***************************************************************************)
(* extractors/office.py                                                    *)
(*                                                                         *)
(* A view that does not open is one on which the library constructor       *)
(* (Document, load_workbook, Presentation) raises; none of the three       *)
(* extractors catches it.                                                  *)
(***************************************************************************)
PIPE == <<" ", "|", " ">>

\* " | ".join(cell.strip() for cell in row.cells)
row_text(cells) == join(PIPE, [i \in 1..Len(cells) |-> strip(cells[i])])

\* the rows of a table that are kept: those whose joined text is not blank
table_rows(rows) ==
  SelectSeq([i \in 1..Len(rows) |-> row_text(rows[i])], LAMBDA r : ~IsBlank(r))

HEADING_STYLES == {"Heading 1", "Heading 2"}

RECURSIVE docx_paragraphs(_)
docx_paragraphs(paragraphs) ==
  IF Len(paragraphs) = 0 THEN <<>>
  ELSE LET text == strip(paragraphs[1].text)
       IN (IF Len(text) = 0 THEN <<>>
           ELSE IF paragraphs[1].style \in HEADING_STYLES
           THEN << <<"\n", "## ">> \o text \o <<"\n">> >>
           ELSE << text >>)
          \o docx_paragraphs(Tail(paragraphs))

RECURSIVE docx_tables(_)
docx_tables(tables) ==
  IF Len(tables) = 0 THEN <<>>
  ELSE LET rows == table_rows(tables[1])
       IN (IF Len(rows) = 0 THEN <<>>
           ELSE << <<"\n">> \o join(<<"\n">>, rows) \o <<"\n">> >>)
          \o docx_tables(Tail(tables))

extract_docx(view, filename) ==
  IF ~view.opens THEN Raise(view.exc, <<"Document">>)
  ELSE Return(join(<<"\n">>, docx_paragraphs(view.paragraphs) \o docx_tables(view.tables)),
              0, <<"Document">>)

\* lines 56-59: the rows of one sheet; a cell is <<>> for None, else <<str(v)>>
RECURSIVE xlsx_rows(_)
xlsx_rows(rows) ==
  IF Len(rows) = 0 THEN <<>>
  ELSE LET cells == concat(rows[1])
       IN (IF Len(cells) = 0 THEN <<>> ELSE << join(<<"\t">>, cells) >>)
          \o xlsx_rows(Tail(rows))

RECURSIVE xlsx_sheets(_)
xlsx_sheets(sheets) ==
  IF Len(sheets) = 0 THEN <<>>
  ELSE << <<"\n", "# Sheet: ">> \o sheets[1].name \o <<"\n">> >>
       \o xlsx_rows(sheets[1].rows) \o xlsx_sheets(Tail(sheets))

extract_xlsx(view, filename) ==
  IF ~view.opens THEN Raise(view.exc, <<"load_workbook">>)
  ELSE Return(join(<<"\n">>, xlsx_sheets(view.sheets)), 0, <<"load_workbook">>)

\* lines 79-83: the paragraphs of a text frame; a paragraph is its runs
text_frame_lines(paragraphs) ==
  SelectSeq([i \in 1..Len(paragraphs) |-> strip(concat(paragraphs[i]))],
            LAMBDA line : Len(line) > 0)

\* lines 77-92: what the shapes of a slide append
RECURSIVE shape_lines(_)
shape_lines(shapes) ==
  IF Len(shapes) = 0 THEN <<>>
  ELSE (IF shapes[1].has_text_frame THEN text_frame_lines(shapes[1].paragraphs) ELSE <<>>)
       \o (IF shapes[1].has_table THEN table_rows(shapes[1].rows) ELSE <<>>)
       \o shape_lines(Tail(shapes))

\* lines 95-98: speaker notes
notes_lines(slide) ==
  IF slide.has_notes_slide /\ Len(strip(slide.notes)) > 0
  THEN << <<"[Notes] ">> \o strip(slide.notes) >>
  ELSE <<>>

slide_header(slide_num) == <<"\n", "--- Slide ", ToString(slide_num), " ---">>

\* a slide_parts that does not skip empty slides
slide_parts_keep_empty(slide_num, slide) ==
  <<slide_header(slide_num)>> \o shape_lines(slide.shapes) \o notes_lines(slide)

\* lines 75-101: one slide
slide_parts(slide_num, slide) ==
  LET parts == <<slide_header(slide_num)>> \o shape_lines(slide.shapes)
               \o notes_lines(slide)
  IN IF Len(parts) > 1 THEN parts ELSE <<>>

RECURSIVE pptx_parts(_, _)
pptx_parts(slides, slide_num) ==
  IF slide_num > Len(slides) THEN <<>>
  ELSE slide_parts(slide_num, slides[slide_num]) \o pptx_parts(slides, slide_num + 1)

extract_pptx(view, filename) ==
  IF ~view.opens THEN Raise(view.exc, <<"Presentation">>)
  ELSE Return(join(<<"\n">>, pptx_parts(view.slides, 1)), Len(view.slides),
              <<"Presentation">>)

(***************************************************************************)
(* main.py: the registry and the two endpoints                             *)
(***************************************************************************)
EXTRACTORS ==
  [m \in {"application/pdf"} |-> "pdf.extract"]
  @@ ("application/vnd.openxmlformats-officedocument.wordprocessingml.document"
        :> "office.extract_docx")
  @@ ("application/vnd.openxmlformats-officedocument.spreadsheetml.sheet"
        :> "office.extract_xlsx")
  @@ ("application/vnd.openxmlformats-officedocument.presentationml.presentation"
        :> "office.extract_pptx")
  @@ [m \in {"application/json", "application/x-ipynb+json",
             "application/vnd.google.colaboratory"} |-> "notebook.extract"]
  @@ ("text/html" :> "html_extractor.extract")
  @@ [m \in {"image/jpeg", "image/png", "image/webp", "image/gif", "image/tiff",
             "image/bmp"} |-> "image.extract"]

\* extractor_fn(file_bytes, filename)
Invoke(extractor_fn, view, filename, ocr_available) ==
  CASE extractor_fn = "pdf.extract" -> pdf_extract(view, filename)
    [] extractor_fn = "office.extract_docx" -> extract_docx(view, filename)
    [] extractor_fn = "office.extract_xlsx" -> extract_xlsx(view, filename)
    [] extractor_fn = "office.extract_pptx" -> extract_pptx(view, filename)
    [] extractor_fn = "notebook.extract" -> notebook_extract(view, filename)
    [] extractor_fn = "html_extractor.extract" -> html_extract(view, filename)
    [] extractor_fn = "image.extract" -> image_extract(view, filename, ocr_available)

ExtractResponse(text, page_count, metadata) ==
  [status |-> 200, has_body |-> TRUE, text |-> text, page_count |-> page_count,
   metadata |-> metadata, detail |-> <<>>]

HTTPException(status_code, detail) ==
  [status |-> status_code, has_body |-> FALSE, text |-> <<>>, page_count |-> 0,
   metadata |-> {}, detail |-> detail]

NoResponse == HTTPException(0, <<>>)

Outcome(response, called, fetched, res) ==
  [resp |-> response, invoked |-> called, fetches |-> fetched, result |-> res]

\* a try block that reports the whole error message
try_extract_untruncated(extractor_fn, file_bytes, filename, ocr_available, fetched) ==
  LET res == Invoke(extractor_fn, file_bytes.view, filename, ocr_available)
  IN IF res.raised
     THEN Outcome(HTTPException(500, <<"Extraction error: ">> \o res.exc),
                  <<extractor_fn>>, fetched, res)
     ELSE Outcome(ExtractResponse(strip(res.text), res.page_count,
                                  IF res.has_metadata THEN res.metadata ELSE {}),
                  <<extractor_fn>>, fetched, res)

\* the try block shared by both endpoints (lines 96-107 and 146-157)
try_extract(extractor_fn, file_bytes, filename, ocr_available, fetched) ==
  LET res == Invoke(extractor_fn, file_bytes.view, filename, ocr_available)
  IN IF res.raised
     THEN Outcome(HTTPException(500, <<"Extraction error: ">> \o Slice(res.exc, DiagLimit)),
                  <<extractor_fn>>, fetched, res)
     ELSE Outcome(ExtractResponse(strip(res.text), res.page_count,
                                  IF res.has_metadata THEN res.metadata ELSE {}),
                  <<extractor_fn>>, fetched, res)

\* an upload endpoint that reads the file before it looks the MIME type up
extract_reads_first(r, ocr_available) ==
  IF r.file_bytes.empty
  THEN Outcome(HTTPException(400, <<"Empty file">>), <<>>, 0, NoResult)
  ELSE IF r.mime_type \notin DOMAIN EXTRACTORS
  THEN Outcome(HTTPException(415, <<"Unsupported MIME type: ", r.mime_type>>),
               <<>>, 0, NoResult)
  ELSE try_extract(EXTRACTORS[r.mime_type], r.file_bytes,
                   IF Len(r.filename) = 0 THEN <<"unknown">> ELSE r.filename,
                   ocr_available, 0)

\* POST /extract
extract(r, ocr_available) ==
  IF r.mime_type \notin DOMAIN EXTRACTORS
  THEN Outcome(HTTPException(415, <<"Unsupported MIME type: ", r.mime_type>>),
               <<>>, 0, NoResult)
  ELSE IF r.file_bytes.empty
  THEN Outcome(HTTPException(400, <<"Empty file">>), <<>>, 0, NoResult)
  ELSE try_extract(EXTRACTORS[r.mime_type], r.file_bytes,
                   IF Len(r.filename) = 0 THEN <<"unknown">> ELSE r.filename,
                   ocr_available, 0)

\* POST /extract-from-drive
extract_from_drive(r, ocr_available) ==
  IF r.mime_type \notin DOMAIN EXTRACTORS
  THEN Outcome(HTTPException(415, <<"Unsupported MIME type: ", r.mime_type>>),
               <<>>, 0, NoResult)
  ELSE IF r.fetch.outcome = "exception"
  THEN Outcome(HTTPException(502, <<"Drive download error: ">> \o r.fetch.text),
               <<>>, 1, NoResult)
  ELSE IF r.fetch.outcome = "status"
  THEN Outcome(HTTPException(502, <<"Drive download failed: ", r.fetch.status_code, " ">>
                                  \o Slice(r.fetch.text, DriveDiagLimit)),
               <<>>, 1, NoResult)
  ELSE try_extract(EXTRACTORS[r.mime_type], r.file_bytes, r.filename, ocr_available, 1)

(***************************************************************************)
(* The requests the service can receive.                                   *)
(***************************************************************************)
BSeq(S, n) == UNION {[1..k -> S] : k \in 0..n}

Filenames == {<<>>, <<"doc">>}

PageTexts == {<<>>, <<" ", "\n">>, <<"a">>, <<"b", "\n">>, PAGE_BREAK}

PdfPages ==
  {[raises |-> FALSE, exc |-> <<>>, text |-> t] : t \in PageTexts}
  \cup {[raises |-> TRUE, exc |-> e, text |-> <<>>] : e \in ErrMsgs}

PdfViews ==
  {[opens |-> FALSE, exc |-> Msg(1), pages |-> <<>>, meta |-> {}]}
  \cup {[opens |-> TRUE, exc |-> <<>>, pages |-> ps, meta |-> m] :
          ps \in BSeq(PdfPages, MaxPages), m \in {{}, {<<"title", <<"T">>>>}}}

ImageViews ==
  {[decode_raises |-> TRUE, exc |-> Msg(1), mode |-> "RGB", ocr_raises |-> FALSE,
    ocr_text |-> <<>>, width |-> 0, height |-> 0]}
  \cup {[decode_raises |-> FALSE, exc |-> Msg(1), mode |-> m, ocr_raises |-> TRUE,
         ocr_text |-> <<>>, width |-> 640, height |-> 480] : m \in {"RGB", "P"}}
  \cup {[decode_raises |-> FALSE, exc |-> <<>>, mode |-> m, ocr_raises |-> FALSE,
         ocr_text |-> t, width |-> 640, height |-> 480] :
          m \in {"RGB", "P"}, t \in {<<>>, <<" ", "\n">>, <<"hi", "\n">>}}

Str(value) == [kind |-> "str", value |-> value]
List(value) == [kind |-> "list", value |-> value]
Other == [kind |-> "other", value |-> <<>>]

Cells ==
  {[cell_type |-> "markdown", source |-> Str(<<" ", "x", "\n">>)],
   [cell_type |-> "markdown", source |-> List(<< <<"a", "\n">>, <<"b">> >>)],
   [cell_type |-> "markdown", source |-> Str(<<" ", "\n">>)],
   [cell_type |-> "markdown", source |-> Other],
   [cell_type |-> "code", source |-> Str(<<"print(1)">>)],
   [cell_type |-> "code", source |-> List(<<>>)],
   [cell_type |-> "code", source |-> Str(<<>>)],
   [cell_type |-> "raw", source |-> Str(<<"r">>)],
   [cell_type |-> "raw", source |-> List(<< <<" ">>, <<"\n">> >>)],
   [cell_type |-> "heading", source |-> Str(<<"h">>)]}

NotebookViews ==
  {[parse |-> "fail", exc |-> Msg(1), cells |-> <<>>]}
  \cup {[parse |-> p, exc |-> <<>>, cells |-> cs] :
          p \in {"nbformat", "json"}, cs \in BSeq(Cells, MaxCells)}

Elements ==
  {[name |-> "h1", string |-> <<"A">>],
   [name |-> "h3", string |-> <<"\n", "B", " ">>],
   [name |-> "h2", string |-> <<" ">>],
   [name |-> "p", string |-> <<"a">>],
   [name |-> "p", string |-> <<" ", "a", "\n", "\n", "\n", "b", " ">>],
   [name |-> "li", string |-> <<"x">>],
   [name |-> "td", string |-> <<"c">>],
   [name |-> "th", string |-> <<>>],
   [name |-> "div", string |-> <<"d">>],
   [name |-> "script", string |-> <<"alert(1)">>]}

HtmlViews ==
  {[bs4 |-> "parser_error", exc |-> Msg(1), elements |-> <<>>]}
  \cup {[bs4 |-> b, exc |-> <<>>, elements |-> es] :
          b \in {"ok", "import_error"}, es \in BSeq(Elements, MaxElements)}

Shape(has_text_frame, paragraphs, has_table, rows) ==
  [has_text_frame |-> has_text_frame, paragraphs |-> paragraphs,
   has_table |-> has_table, rows |-> rows]

Slides ==
  {[shapes |-> <<>>, has_notes_slide |-> FALSE, notes |-> <<>>],
   [shapes |-> << Shape(TRUE, << << <<" ">> >>, <<>> >>, FALSE, <<>>) >>,
    has_notes_slide |-> TRUE, notes |-> <<" ", "\n">>],
   [shapes |-> << Shape(TRUE, << << <<"Hello", " ">>, <<"world">> >> >>, FALSE, <<>>) >>,
    has_notes_slide |-> FALSE, notes |-> <<>>],
   [shapes |-> << Shape(FALSE, <<>>, TRUE, << << <<"a">>, <<"b">> >>, << <<>>, <<>> >> >>) >>,
    has_notes_slide |-> FALSE, notes |-> <<>>],
   [shapes |-> << Shape(FALSE, <<>>, TRUE, << << <<" ">> >> >>) >>,
    has_notes_slide |-> FALSE, notes |-> <<>>],
   [shapes |-> << Shape(FALSE, <<>>, FALSE, <<>>) >>,
    has_notes_slide |-> TRUE, notes |-> <<"n", "\n">>]}

PptxViews ==
  {[opens |-> FALSE, exc |-> e, slides |-> <<>>] : e \in ErrMsgs}
  \cup {[opens |-> TRUE, exc |-> <<>>, slides |-> ss] : ss \in BSeq(Slides, MaxSlides)}

DocxViews ==
  {[opens |-> FALSE, exc |-> e, paragraphs |-> <<>>, tables |-> <<>>] : e \in ErrMsgs}
  \cup {[opens |-> TRUE, exc |-> <<>>, paragraphs |-> ps, tables |-> ts] :
          ps \in {<<>>,
                  <<[text |-> <<"Title">>, style |-> "Heading 1"],
                    [text |-> <<" ">>, style |-> "Normal"],
                    [text |-> <<"body", " ">>, style |-> "Normal"]>>},
          ts \in {<<>>, << << << <<"a">>, <<" ", "b">> >>, << <<" ">> >> >> >>}}

XlsxViews ==
  {[opens |-> FALSE, exc |-> e, sheets |-> <<>>] : e \in ErrMsgs}
  \cup {[opens |-> TRUE, exc |-> <<>>, sheets |-> ss] :
          ss \in {<<>>,
                  <<[name |-> <<"S1">>,
                     rows |-> << << << <<"1">> >>, <<>>, << <<"x">> >> >>,
                                 << <<>>, <<>> >> >>],
                    [name |-> <<"S2">>, rows |-> <<>>]>>}}

Views(extractor_fn) ==
  CASE extractor_fn = "pdf.extract" -> PdfViews
    [] extractor_fn = "office.extract_docx" -> DocxViews
    [] extractor_fn = "office.extract_xlsx" -> XlsxViews
    [] extractor_fn = "office.extract_pptx" -> PptxViews
    [] extractor_fn = "notebook.extract" -> NotebookViews
    [] extractor_fn = "html_extractor.extract" -> HtmlViews
    [] extractor_fn = "image.extract" -> ImageViews

\* what the libraries report for a zero-length buffer: fitz either refuses it
\* or opens a document without pages (it depends on the PyMuPDF version);
\* neither notebook parser accepts it; BeautifulSoup yields an empty tree;
\* Pillow and the three Office constructors raise.
EmptyViews(extractor_fn) ==
  CASE extractor_fn = "pdf.extract" ->
         {v \in PdfViews : ~v.opens \/ (Len(v.pages) = 0 /\ v.meta = {})}
    [] extractor_fn = "office.extract_docx" -> {v \in DocxViews : ~v.opens /\ v.exc = Msg(1)}
    [] extractor_fn = "office.extract_xlsx" -> {v \in XlsxViews : ~v.opens /\ v.exc = Msg(1)}
    [] extractor_fn = "office.extract_pptx" -> {v \in PptxViews : ~v.opens /\ v.exc = Msg(1)}
    [] extractor_fn = "notebook.extract" -> {v \in NotebookViews : v.parse = "fail"}
    [] extractor_fn = "html_extractor.extract" ->
         {v \in HtmlViews : v.bs4 # "parser_error" /\ Len(v.elements) = 0}
    [] extractor_fn = "image.extract" -> {v \in ImageViews : v.decode_raises}

OpaqueView == [opaque |-> TRUE]

UnsupportedMimes == {"", "text/plain", "Application/PDF", "image/svg+xml"}

MimeTypes == DOMAIN EXTRACTORS \cup UnsupportedMimes

FileBytes(mime_type) ==
  IF mime_type \in DOMAIN EXTRACTORS
  THEN {[empty |-> FALSE, view |-> v] : v \in Views(EXTRACTORS[mime_type])}
       \cup {[empty |-> TRUE, view |-> v] : v \in EmptyViews(EXTRACTORS[mime_type])}
  ELSE {[empty |-> e, view |-> OpaqueView] : e \in BOOLEAN}

NoFetch == [outcome |-> "none", status_code |-> "", text |-> <<>>]
FetchOk == [outcome |-> "ok", status_code |-> "200", text |-> <<>>]
FetchFailures ==
  {[outcome |-> "exception", status_code |-> "", text |-> Msg(1)]}
  \cup {[outcome |-> "status", status_code |-> "404", text |-> t] :
          t \in {Msg(1), Msg(DriveDiagLimit + MaxExtra)}}

Request(path, mime_type, filename, file_bytes, fetch) ==
  [path |-> path, mime_type |-> mime_type, filename |-> filename,
   file_bytes |-> file_bytes, fetch |-> fetch]

RequestsFor(mime_type) ==
  {Request("upload", mime_type, f, b, NoFetch) :
     f \in Filenames, b \in FileBytes(mime_type)}
  \cup {Request("drive", mime_type, f, b, FetchOk) :
          f \in Filenames, b \in FileBytes(mime_type)}
  \cup {Request("drive", mime_type, f, [empty |-> TRUE, view |-> OpaqueView], x) :
          f \in Filenames, x \in FetchFailures}

ImageMimes == {"image/png", "image/gif"}

(***************************************************************************)
(* The service: the OCR probe runs at import (image.py lines 9-16); each   *)
(* request is then handled by one of the two endpoints.                    *)
(***************************************************************************)
Start(mime_types) ==
  /\ OCR_AVAILABLE \in BOOLEAN
  /\ \E m \in mime_types : req \in RequestsFor(m)
  /\ pc = "received"
  /\ resp = NoResponse
  /\ invoked = <<>>
  /\ fetches = 0
  /\ result = NoResult

Init == Start(MimeTypes)

Handle(outcome) ==
  /\ resp' = outcome.resp
  /\ invoked' = outcome.invoked
  /\ fetches' = outcome.fetches
  /\ result' = outcome.result
  /\ pc' = "done"
  /\ UNCHANGED <<OCR_AVAILABLE, req>>

Extract ==
  /\ pc = "received"
  /\ req.path = "upload"
  /\ Handle(extract(req, OCR_AVAILABLE))

ExtractFromDrive ==
  /\ pc = "received"
  /\ req.path = "drive"
  /\ Handle(extract_from_drive(req, OCR_AVAILABLE))

Next == Extract \/ ExtractFromDrive

Spec == Init /\ [][Next]_vars

\* the next request reaches a process that has served one
Receive ==
  /\ pc = "done"
  /\ \E m \in ImageMimes : req' \in RequestsFor(m)
  /\ pc' = "received"
  /\ resp' = NoResponse
  /\ invoked' = <<>>
  /\ fetches' = 0
  /\ result' = NoResult
  /\ UNCHANGED OCR_AVAILABLE

InitImage == Start(ImageMimes)

NextImage == Extract \/ ExtractFromDrive \/ Receive

SpecImage == InitImage /\ [][NextImage]_vars

(***************************************************************************)
(* Properties                                                              *)
(***************************************************************************)
Done == pc = "done"

Supported == req.mime_type \in DOMAIN EXTRACTORS

\* the handler holds the bytes: uploaded, or returned by Drive with status 200
BytesReached == req.path = "upload" \/ req.fetch.outcome = "ok"

Called(extractor_fn) == Done /\ invoked = <<extractor_fn>>

View == req.file_bytes.view

\* the filename the endpoint hands to the extractor
PassedFilename ==
  IF req.path = "upload" /\ req.filename = <<>> THEN <<"unknown">> ELSE req.filename

\* C1: for every MIME key of the registry, a dispatch whose bytes are empty
\* fails with EmptyInput (400) and invokes no extractor, on the upload path
\* and on the Drive path alike.
C1_EmptyInputOnEveryPath ==
  (Done /\ Supported /\ BytesReached /\ req.file_bytes.empty)
    => (resp.status = 400 /\ ~resp.has_body /\ invoked = <<>>)

\* C2: a MIME string that is not exactly a key of the registry is answered
\* with UnsupportedType (415) naming the rejected value, whatever the bytes
\* are, and neither an extractor nor the Drive download is invoked.
C2_UnsupportedType ==
  (Done /\ ~Supported)
    => /\ resp.status = 415
       /\ ~resp.has_body
       /\ resp.detail = <<"Unsupported MIME type: ", req.mime_type>>
       /\ invoked = <<>>
       /\ fetches = 0

C2_Witness ==
  /\ Done
  /\ req.mime_type = "Application/PDF"
  /\ req.path = "drive"
  /\ req.file_bytes.empty
  /\ resp.status = 415

LocallyAbsorbing ==
  {"pdf.extract", "html_extractor.extract", "image.extract", "notebook.extract"}

\* C3: the PDF, HTML, Image and Notebook extractors never raise: whatever
\* step fails, the call returns normally with page_count 0, and the endpoint
\* never answers ExtractionFailed (500) for them.
C3_NeverRaises ==
  (Done /\ Len(invoked) = 1 /\ invoked[1] \in LocallyAbsorbing)
    => (~result.raised /\ resp.status # 500)

\* C4: a dispatch with a registered MIME key and non-empty bytes invokes the
\* resolved extractor exactly once and ends either in a result or in
\* ExtractionFailed (500) whose detail holds at most the first 300 characters
\* of the error message; a raising extractor gives ExtractionFailed, and a
\* failure never comes with a text.
C4_OneCallOneOutcome ==
  (Done /\ Supported /\ BytesReached /\ ~req.file_bytes.empty)
    => /\ invoked = <<EXTRACTORS[req.mime_type]>>
       /\ \/ /\ ~result.raised
             /\ resp.status = 200
             /\ resp.has_body
             /\ resp.detail = <<>>
          \/ /\ result.raised
             /\ resp.status = 500
             /\ ~resp.has_body
             /\ resp.text = <<>>
             /\ \E n \in 0..DiagLimit :
                  /\ n <= Len(result.exc)
                  /\ resp.detail = <<"Extraction error: ">> \o SubSeq(result.exc, 1, n)

C4_Witness ==
  /\ Called("office.extract_pptx")
  /\ ~req.file_bytes.empty
  /\ result.raised
  /\ Len(result.exc) > DiagLimit
  /\ resp.status = 500
  /\ Len(resp.detail) = DiagLimit + 1

SameOutcome(a, b) ==
  /\ a.status = b.status
  /\ a.has_body = b.has_body
  /\ a.has_body => (a.text = b.text /\ a.page_count = b.page_count
                    /\ a.metadata = b.metadata)

AsUpload(r) == [r EXCEPT !.path = "upload", !.fetch = NoFetch]

\* C5: once Drive has returned the bytes, the Drive endpoint gives the same
\* outcome as the upload endpoint given the same MIME type, bytes and
\* filename, empty bytes included.
C5_ProvenanceUnaware ==
  (Done /\ req.path = "drive" /\ req.fetch.outcome = "ok")
    => SameOutcome(resp, extract(AsUpload(req), OCR_AVAILABLE).resp)

NonBlankPages(pages) == {i \in 1..Len(pages) : \E k \in 1..Len(pages[i].text) :
                                                 pages[i].text[k] \notin WS}

RECURSIVE JoinPages(_, _)
JoinPages(pages, from) ==
  IF \A i \in NonBlankPages(pages) : i < from THEN <<>>
  ELSE LET i == CHOOSE k \in NonBlankPages(pages) :
                  k >= from /\ \A j \in NonBlankPages(pages) : j >= from => k <= j
       IN pages[i].text
          \o (IF \E j \in NonBlankPages(pages) : j > i THEN PAGE_BREAK ELSE <<>>)
          \o JoinPages(pages, i + 1)

Occurrences(sub, s) ==
  Cardinality({i \in 1..Len(s) :
                 i + Len(sub) - 1 <= Len(s) /\ SubSeq(s, i, i + Len(sub) - 1) = sub})

HasConsecutiveBlankLines(s) ==
  \E i, j, k \in 1..Len(s) :
    /\ i < j /\ j < k
    /\ s[i] = "\n" /\ s[j] = "\n" /\ s[k] = "\n"
    /\ \A m \in i..k : s[m] \in WS

\* C7: the text the HTML extractor returns never holds two or more
\* consecutive blank lines, whatever elements the document holds.
C7_NoConsecutiveBlankLines ==
  (Called("html_extractor.extract") /\ View.bs4 = "ok" /\ ~result.raised)
    => ~HasConsecutiveBlankLines(result.text)

RawSource(cell) ==
  IF cell.source.kind = "list" THEN concat(cell.source.value) ELSE cell.source.value

Fenced(source) == <<"\n", "FENCE python", "\n">> \o source \o <<"\n", "FENCE", "\n">>

StrippedSource(cell) == strip(RawSource(cell))

\* the contributions of the cells, in cell order; a non-blank cell's source is
\* emitted as it is stored, or stripped of leading and trailing whitespace
RECURSIVE Contributions(_, _)
Contributions(cells, stripped) ==
  IF Len(cells) = 0 THEN <<>>
  ELSE LET source == IF stripped THEN StrippedSource(cells[1]) ELSE RawSource(cells[1])
       IN (IF IsBlank(RawSource(cells[1])) THEN <<>>
           ELSE IF cells[1].cell_type \in {"markdown", "raw"} THEN <<source>>
           ELSE IF cells[1].cell_type = "code" THEN <<Fenced(source)>>
           ELSE <<>>)
          \o Contributions(Tail(cells), stripped)

TitleLine == <<"# Jupyter Notebook: ">> \o PassedFilename \o <<"\n">>

NotebookText(stripped) ==
  join(<<"\n", "\n">>, <<TitleLine>> \o Contributions(View.cells, stripped))

NotebookReturned ==
  Called("notebook.extract") /\ View.parse # "fail" /\ ~result.raised

SlideYields(slide) ==
  \/ \E i \in 1..Len(slide.shapes) :
       LET shape == slide.shapes[i]
       IN \/ /\ shape.has_text_frame
             /\ \E p \in 1..Len(shape.paragraphs) : ~IsBlank(concat(shape.paragraphs[p]))
          \/ /\ shape.has_table
             /\ \E r \in 1..Len(shape.rows) :
                  \/ Len(shape.rows[r]) > 1
                  \/ Len(shape.rows[r]) = 1 /\ ~IsBlank(shape.rows[r][1])
  \/ slide.has_notes_slide /\ ~IsBlank(slide.notes)

\* the slide numbers of the headers found in a text, in order
RECURSIVE HeaderNumbers(_)
HeaderNumbers(s) ==
  IF Len(s) < 2 THEN <<>>
  ELSE (IF s[1] = "--- Slide " THEN <<s[2]>> ELSE <<>>) \o HeaderNumbers(Tail(s))

RECURSIVE YieldingNumbers(_, _)
YieldingNumbers(slides, n) ==
  IF n > Len(slides) THEN <<>>
  ELSE (IF SlideYields(slides[n]) THEN <<ToString(n)>> ELSE <<>>)
       \o YieldingNumbers(slides, n + 1)

\* C10: page_count is the number of slides; the headers in the output are
\* exactly those of the slides that yield content, each with the slide's
\* 1-based position, in slide order; when no slide yields, the output is empty.
C10_PptxSlides ==
  (Called("office.extract_pptx") /\ ~result.raised)
    => /\ result.page_count = Len(View.slides)
       /\ HeaderNumbers(result.text) = YieldingNumbers(View.slides, 1)
       /\ (\A n \in 1..Len(View.slides) : ~SlideYields(View.slides[n]))
            => result.text = <<>>

C10_Witness ==
  /\ Called("office.extract_pptx")
  /\ ~result.raised
  /\ Len(View.slides) = 2
  /\ ~SlideYields(View.slides[1])
  /\ SlideYields(View.slides[2])
  /\ result.page_count = 2
  /\ HeaderNumbers(result.text) = <<"2">>

====
